---- MODULE Spec2Model ----
(***************************************************************************)
(* A model of the voice-conversion pipeline of AiCoverSing2:               *)
(*   src/src/rvc.py              RVCPipeline (registry, cache, audio I/O)  *)
(*   src/src/cli.py              the command-line driver                   *)
(*   src/src/download_models.py  the model download utility               *)
(*                                                                         *)
(* Python strings are sequences of one-character strings, so that          *)
(* str.endswith, str.lower, sorted, os.path.dirname, os.path.basename and  *)
(* os.path.splitext are computed and not assumed.                          *)
(***************************************************************************)
EXTENDS Integers, Sequences, FiniteSets, TLC

VARIABLES
    modelsDirIsDir, \* os.path.isdir(self.models_dir)
    dirEntries,     \* the entries of models_dir: name -> [kind, files]
    models,         \* RVCPipeline.models, the cache: name -> entry
    loads,          \* instrumentation: cache stores performed per model name
    firstStored,    \* instrumentation: the entry the first store of a name wrote
    last,           \* the last pipeline call and what it did
    tpc,            \* per request thread: its position in load_model
    tname,          \* per request thread: the model_name it resolves
    tmodels,        \* per request thread: the local `models` of load_model
    wfs,            \* the working directory tree: path -> "file" | "dir"
    io,             \* the last load_audio, save_audio or CLI run and its end
    dlPc,           \* download main(): where it is
    dlPos,          \* download main(): index of the artifact of the current loop
    dlAttempts,     \* download_from_url: attempts made for the current artifact
    dlWaits,        \* download_from_url: the waits slept for the current artifact
    dlDisk,         \* the artifacts present in the two download directories
    dlLog           \* per artifact: how its loop iteration ended

vars == <<modelsDirIsDir, dirEntries, models, loads, firstStored, last,
          tpc, tname, tmodels, wfs, io,
          dlPc, dlPos, dlAttempts, dlWaits, dlDisk, dlLog>>

regVars == <<modelsDirIsDir, dirEntries>>
cacheVars == <<models, loads, firstStored>>
threadVars == <<tpc, tname, tmodels>>
ioVars == <<wfs, io>>
dlVars == <<dlPc, dlPos, dlAttempts, dlWaits, dlDisk, dlLog>>

----------------------------------------------------------------------------
(* Bounds of the model.                                                    *)

\* How many names of FilePool may occur inside a model directory.
MaxFiles == 3
\* How many request threads resolve models concurrently.
NumThreads == 2

----------------------------------------------------------------------------
(* Strings.                                                                *)

\* The characters the model uses, in code-point order.
CharOrder ==
    <<".", "/", "0", "1", "2", "3", "4", "5", "6", "7", "8", "9",
      "A", "B", "C", "D", "E", "F", "G", "H", "I", "J", "K", "L", "M",
      "N", "O", "P", "Q", "R", "S", "T", "U", "V", "W", "X", "Y", "Z", "_",
      "a", "b", "c", "d", "e", "f", "g", "h", "i", "j", "k", "l", "m",
      "n", "o", "p", "q", "r", "s", "t", "u", "v", "w", "x", "y", "z">>

Ord(c) == CHOOSE i \in 1..Len(CharOrder) : CharOrder[i] = c

UpperChars ==
    <<"A", "B", "C", "D", "E", "F", "G", "H", "I", "J", "K", "L", "M",
      "N", "O", "P", "Q", "R", "S", "T", "U", "V", "W", "X", "Y", "Z">>
LowerChars ==
    <<"a", "b", "c", "d", "e", "f", "g", "h", "i", "j", "k", "l", "m",
      "n", "o", "p", "q", "r", "s", "t", "u", "v", "w", "x", "y", "z">>

\* str.lower()
LowerChar(c) ==
    IF \E i \in 1..Len(UpperChars) : UpperChars[i] = c
    THEN LowerChars[CHOOSE i \in 1..Len(UpperChars) : UpperChars[i] = c]
    ELSE c
Lower(s) == [i \in 1..Len(s) |-> LowerChar(s[i])]

\* s < t, as Python compares str
StrLess(s, t) ==
    LET n == IF Len(s) < Len(t) THEN Len(s) ELSE Len(t)
        diff == {i \in 1..n : s[i] # t[i]}
    IN  IF diff = {}
        THEN Len(s) < Len(t)
        ELSE LET k == CHOOSE i \in diff : \A j \in diff : i <= j
             IN  Ord(s[k]) < Ord(t[k])

\* sorted(S) of a collection of distinct strings
RECURSIVE Sorted(_)
Sorted(S) ==
    IF S = {} THEN <<>>
    ELSE LET m == CHOOSE x \in S : \A y \in S \ {x} : StrLess(x, y)
         IN  <<m>> \o Sorted(S \ {m})

\* s.endswith(suffix)
EndsWith(s, suffix) ==
    /\ Len(s) >= Len(suffix)
    /\ SubSeq(s, Len(s) - Len(suffix) + 1, Len(s)) = suffix

----------------------------------------------------------------------------
(* The models directory.                                                   *)

MODELS_DIR == <<"r", "v", "c", "_", "m", "o", "d", "e", "l", "s">>
PTH_EXT == <<".", "p", "t", "h">>
INDEX_EXT == <<".", "i", "n", "d", "e", "x">>

\* The names a model directory may hold; the first MaxFiles of them occur.
FilePool ==
    <<  <<"b", ".", "p", "t", "h">>,
        <<"a", ".", "i", "n", "d", "e", "x">>,
        <<"a", ".", "p", "t", "h">>,
        <<"p", "t", "h", ".", "b", "a", "k">>,
        <<"b", ".", "i", "n", "d", "e", "x">>,
        <<"i", "n", "d", "e", "x">> >>
FileNames ==
    {FilePool[i] : i \in 1..(IF MaxFiles < Len(FilePool) THEN MaxFiles ELSE Len(FilePool))}

\* The names of the entries of models_dir, and the model names requested.
ModelNames == { <<"m", "1">>, <<"m", "2">> }

Absent == [kind |-> "absent", files |-> {}]
PlainFile == [kind |-> "file", files |-> {}]
Directory(files) == [kind |-> "dir", files |-> files]
EntryStates == {Absent, PlainFile} \cup {Directory(fs) : fs \in SUBSET FileNames}

\* os.listdir(path): every order the filesystem may return the names in.
RECURSIVE ListDirOrders(_)
ListDirOrders(S) ==
    IF S = {} THEN {<<>>}
    ELSE UNION {{<<x>> \o p : p \in ListDirOrders(S \ {x})} : x \in S}

\* os.path.join(a, b) for a relative b and a non-empty a without a trailing slash
PathJoin(a, b) == a \o <<"/">> \o b

\* [f for f in listing if f.endswith(ext)]
FilesWithExt(listing, ext) == SelectSeq(listing, LAMBDA f : EndsWith(f, ext))

\* bool([f for f in os.listdir(path) if f.endswith(ext)]): a list is true when
\* it is not empty, which no order of the listing changes.
HasFileWithExt(files, ext) == {f \in files : EndsWith(f, ext)} # {}

\* A mutant of IsModelDir: the index file is not required.
IsModelDirWeightsOnly(entry) ==
    /\ entry.kind = "dir"
    /\ HasFileWithExt(entry.files, PTH_EXT)

\* The test of list_models on one entry of models_dir:
\* os.path.isdir(path), then `if pth_files and index_files`.
IsModelDir(entry) ==
    /\ entry.kind = "dir"
    /\ HasFileWithExt(entry.files, PTH_EXT)
    /\ HasFileWithExt(entry.files, INDEX_EXT)

\* The loop of list_models over sorted(os.listdir(models_dir)).
RECURSIVE ListModelsLoop(_, _, _)
ListModelsLoop(names, ents, acc) ==
    IF names = <<>> THEN acc
    ELSE LET name == Head(names)
             acc2 == IF IsModelDir(ents[name])
                     THEN [n \in DOMAIN acc \cup {name} |->
                              IF n = name THEN PathJoin(MODELS_DIR, name) ELSE acc[n]]
                     ELSE acc
         IN  ListModelsLoop(Tail(names), ents, acc2)

EmptyDict == [n \in {} |-> <<>>]

\* RVCPipeline.list_models
ListModels(isDir, ents) ==
    IF ~isDir THEN EmptyDict
    ELSE ListModelsLoop(Sorted({n \in DOMAIN ents : ents[n].kind # "absent"}),
                        ents, EmptyDict)

----------------------------------------------------------------------------
(* The model cache.                                                        *)

NoError == [type |-> "none", name |-> <<>>, dir |-> <<>>]

\* A mutant of ModelNotFound: the message leaves out the directory.
ModelNotFoundNoDir(name) == [type |-> "ValueError", name |-> name, dir |-> <<>>]

\* ValueError(f"Модель {model_name} не найдена в {self.models_dir}")
ModelNotFound(name) == [type |-> "ValueError", name |-> name, dir |-> MODELS_DIR]

\* A mutant of CacheHit: the cache is never consulted.
CacheHitNever(cache, name) == FALSE

\* `model_name in self.models`
CacheHit(cache, name) == name \in DOMAIN cache

\* [f for f in os.listdir(model_dir) if f.endswith(ext)][0], for every order
\* os.listdir may return
FirstWithExt(files, ext) ==
    {Head(FilesWithExt(l, ext)) :
        l \in {o \in ListDirOrders(files) : FilesWithExt(o, ext) # <<>>}}

\* The dictionary load_model stores for a model.
CacheEntry(dir, pth, index) == [dir |-> dir, pth |-> pth, index |-> index]

\* A mutant of CacheStore: the dictionary is replaced, not updated.
CacheStoreAlone(cache, name, entry) == [n \in {name} |-> entry]

\* self.models[model_name] = entry
CacheStore(cache, name, entry) ==
    [n \in DOMAIN cache \cup {name} |-> IF n = name THEN entry ELSE cache[n]]

\* RVCPipeline.load_model run to its end: every outcome it may have.
LoadModelOutcomes(cache, isDir, ents, name) ==
    IF CacheHit(cache, name)
    THEN {[models |-> cache, hit |-> TRUE, scanned |-> FALSE, stored |-> FALSE,
           err |-> NoError]}
    ELSE LET found == ListModels(isDir, ents)
         IN  IF name \notin DOMAIN found
             THEN {[models |-> cache, hit |-> FALSE, scanned |-> TRUE,
                    stored |-> FALSE, err |-> ModelNotFound(name)]}
             ELSE {[models |-> CacheStore(cache, name,
                                   CacheEntry(found[name], pth, index)),
                    hit |-> FALSE, scanned |-> TRUE, stored |-> TRUE,
                    err |-> NoError] :
                      pth \in FirstWithExt(ents[name].files, PTH_EXT),
                      index \in FirstWithExt(ents[name].files, INDEX_EXT)}

\* The conversion stages the specification lists, in its order.
Stages ==
    <<"f0_extraction", "pitch_formant_remap", "feature_retrieval_blend",
      "voice_synthesis", "consonant_protection", "rms_remix", "autotune">>

\* The conversion stages the body of infer_voice executes after load_model:
\* none, the audio is returned as it came.
InferVoiceStages(params) == <<>>

\* The audio and sample rate infer_voice returns.
InferVoiceReturn(audio, sr, params) == [audio |-> audio, sr |-> sr]

\* A mutant of InferVoiceBody: the features of the index are blended in
\* whatever the index rate is.
InferVoiceBodyBlended(entry, audio, sr, params) ==
    [audio |-> IF entry.index = <<"a", ".", "i", "n", "d", "e", "x">>
               THEN audio ELSE "blended",
     sr |-> sr]

\* The body of infer_voice after load_model: self.models[model_name] is
\* loaded and at hand, and the body does not read it.
InferVoiceBody(entry, audio, sr, params) == InferVoiceReturn(audio, sr, params)

\* The inputs of infer_voice the model draws from.
Audios == {"take1", "take2"}
SampleRates == {44100}
\* index_rate in tenths, and the autotune flag
ParamSets == [index_rate : {0, 5}, autotune : BOOLEAN]
NoParams == [index_rate |-> 0, autotune |-> FALSE]

NoCall ==
    [op |-> "none", name |-> <<>>, hit |-> FALSE, scanned |-> FALSE,
     stored |-> FALSE, err |-> NoError, dict |-> EmptyDict, audioIn |-> "",
     srIn |-> 0, audio |-> "", sr |-> 0, params |-> NoParams, stages |-> <<>>]

----------------------------------------------------------------------------
(* Paths and the working directory tree.                                   *)

\* s.rfind(c) + 1: the position of the last c in s, 0 when there is none
RFind(s, c) ==
    LET at == {i \in 1..Len(s) : s[i] = c}
    IN  IF at = {} THEN 0 ELSE CHOOSE i \in at : \A j \in at : j <= i

\* head.rstrip('/')
RECURSIVE RStripSlash(_)
RStripSlash(s) ==
    IF s # <<>> /\ s[Len(s)] = "/" THEN RStripSlash(SubSeq(s, 1, Len(s) - 1)) ELSE s

\* os.path.dirname (posixpath): the head of the split at the last slash,
\* stripped of trailing slashes unless it consists of slashes only
Dirname(p) ==
    LET head == SubSeq(p, 1, RFind(p, "/"))
    IN  IF head # <<>> /\ RStripSlash(head) # <<>> THEN RStripSlash(head) ELSE head

\* os.path.basename (posixpath)
Basename(p) == SubSeq(p, RFind(p, "/") + 1, Len(p))

\* os.path.splitext (posixpath): split at the last dot of the last component,
\* unless only dots precede it there
Splitext(p) ==
    LET sepIndex == RFind(p, "/")
        dotIndex == RFind(p, ".")
    IN  IF /\ dotIndex > sepIndex
           /\ \E k \in (sepIndex + 1)..(dotIndex - 1) : p[k] # "."
        THEN [root |-> SubSeq(p, 1, dotIndex - 1), ext |-> SubSeq(p, dotIndex, Len(p))]
        ELSE [root |-> p, ext |-> <<>>]

NoErr == [type |-> "none", arg |-> <<>>]
Raise(type, arg) == [type |-> type, arg |-> arg]

IsDir(fs, p) == p \in DOMAIN fs /\ fs[p] = "dir"
IsFile(fs, p) == p \in DOMAIN fs /\ fs[p] = "file"

\* The tree with path p created or replaced as the given kind.
FsPut(fs, p, kind) == [q \in DOMAIN fs \cup {p} |-> IF q = p THEN kind ELSE fs[q]]

\* os.remove(p)
FsRemove(fs, p) == [q \in DOMAIN fs \ {p} |-> fs[q]]

\* os.mkdir(p), relative to the working directory (which exists)
Mkdir(fs, p) ==
    IF p = <<>> THEN [fs |-> fs, err |-> Raise("FileNotFoundError", p)]
    ELSE IF p \in DOMAIN fs THEN [fs |-> fs, err |-> Raise("FileExistsError", p)]
    ELSE IF Dirname(p) # <<>> /\ Dirname(p) \notin DOMAIN fs
         THEN [fs |-> fs, err |-> Raise("FileNotFoundError", p)]
    ELSE IF Dirname(p) # <<>> /\ ~IsDir(fs, Dirname(p))
         THEN [fs |-> fs, err |-> Raise("NotADirectoryError", p)]
    ELSE [fs |-> FsPut(fs, p, "dir"), err |-> NoErr]

\* os.makedirs(name, exist_ok=True): the missing ancestors first (an ancestor
\* that exists already is passed over), then mkdir(name), whose OSError is
\* passed over only when name is a directory.
RECURSIVE Makedirs(_, _)
Makedirs(fs, name) ==
    LET head == Dirname(name)
        up == IF head # <<>> /\ Basename(name) # <<>> /\ head \notin DOMAIN fs
              THEN Makedirs(fs, head)
              ELSE [fs |-> fs, err |-> NoErr]
    IN  IF up.err.type \notin {"none", "FileExistsError"} THEN up
        ELSE LET made == Mkdir(up.fs, name)
             IN  IF made.err # NoErr /\ IsDir(up.fs, name)
                 THEN [fs |-> up.fs, err |-> NoErr]
                 ELSE made

\* sf.write(p, audio, sr): creates or replaces the file p
SfWrite(fs, p) ==
    IF IsDir(fs, p) \/ (Dirname(p) # <<>> /\ ~IsDir(fs, Dirname(p)))
    THEN [fs |-> fs, err |-> Raise("LibsndfileError", p)]
    ELSE [fs |-> FsPut(fs, p, "file"), err |-> NoErr]

\* ffmpeg.input(tmp).output(out, ...).run(overwrite_output=True): the encoder
\* writes out, or fails (it is not installed, it rejects the input, out is a
\* directory)
FfmpegRun(fs, tmp, out, encoder) ==
    IF encoder # "ok" \/ IsDir(fs, out) \/ ~IsFile(fs, tmp)
    THEN [fs |-> fs, err |-> Raise("ffmpeg.Error", out)]
    ELSE [fs |-> FsPut(fs, out, "file"), err |-> NoErr]

WAV == <<"w", "a", "v">>
MP3 == <<"m", "p", "3">>
TMP_SUFFIX == <<".", "t", "m", "p", ".", "w", "a", "v">>

\* RVCPipeline.save_audio
SaveAudio(fs, filepath, format, encoder) ==
    LET dirs == Makedirs(fs, Dirname(filepath))
    IN  IF dirs.err # NoErr THEN dirs
        ELSE IF Lower(format) = WAV THEN SfWrite(dirs.fs, filepath)
        ELSE IF Lower(format) = MP3
        THEN LET tmp_wav == filepath \o TMP_SUFFIX
                 tmp == SfWrite(dirs.fs, tmp_wav)
                 enc == FfmpegRun(tmp.fs, tmp_wav, filepath, encoder)
             IN  IF tmp.err # NoErr THEN tmp
                 ELSE IF enc.err # NoErr THEN enc
                 ELSE [fs |-> FsRemove(enc.fs, tmp_wav), err |-> NoErr]
        ELSE [fs |-> dirs.fs, err |-> Raise("ValueError", format)]

\* RVCPipeline.load_audio: the error it ends with
LoadAudio(fs, filepath) ==
    IF ~IsFile(fs, filepath) THEN Raise("FileNotFoundError", filepath) ELSE NoErr

\* cli.main, lines 54-56: the output path when -o is not given
DefaultOutput(input, format) ==
    Splitext(Basename(input)).root
        \o <<"_", "c", "o", "n", "v", "e", "r", "t", "e", "d", ".">> \o format

\* cli.main run to its end: a fresh pipeline, load_audio, infer_voice, the
\* output name, save_audio
CliMain(fs, isDir, ents, input, model, given, outputArg, format, encoder) ==
    LET loaded == LoadAudio(fs, input)
        resolves == LoadModelOutcomes(EmptyDict, isDir, ents, model)
        output == IF given THEN outputArg ELSE DefaultOutput(input, format)
        saved == SaveAudio(fs, output, format, encoder)
    IN  IF loaded # NoErr THEN {[fs |-> fs, err |-> loaded, output |-> <<>>]}
        ELSE {IF o.err # NoError
              THEN [fs |-> fs, err |-> Raise(o.err.type, o.err.name), output |-> <<>>]
              ELSE [fs |-> saved.fs, err |-> saved.err, output |-> output] :
                 o \in resolves}

NoIo ==
    [op |-> "none", path |-> <<>>, format |-> <<>>, encoder |-> "", model |-> <<>>,
     given |-> FALSE, output |-> <<>>, err |-> NoErr]

----------------------------------------------------------------------------
(* The pipeline driven by one caller: every call runs to its end.          *)

Threads == 1..NumThreads

\* The parts of the state a specification does not exercise stay as they are.
IoIdle == wfs = EmptyDict /\ io = NoIo
DlIdle ==
    /\ dlPc = "idle" /\ dlPos = 0 /\ dlAttempts = 0 /\ dlWaits = <<>>
    /\ dlDisk = {} /\ dlLog = EmptyDict

\* Any models directory the user may have prepared.
RegistryInit ==
    /\ modelsDirIsDir \in BOOLEAN
    /\ dirEntries \in [ModelNames -> EntryStates]
    /\ modelsDirIsDir = FALSE => dirEntries = [n \in ModelNames |-> Absent]

\* RVCPipeline.__init__: an empty cache.
PipelineInit ==
    /\ models = EmptyDict
    /\ loads = [n \in ModelNames |-> 0]
    /\ firstStored = EmptyDict
    /\ last = NoCall

ThreadsIdle ==
    /\ tpc = [t \in Threads |-> "idle"]
    /\ tname = [t \in Threads |-> <<>>]
    /\ tmodels = [t \in Threads |-> EmptyDict]

Init ==
    /\ RegistryInit
    /\ PipelineInit
    /\ ThreadsIdle
    /\ IoIdle
    /\ DlIdle

\* pipeline.list_models()
CallListModels ==
    /\ last' = [NoCall EXCEPT !.op = "list_models",
                              !.dict = ListModels(modelsDirIsDir, dirEntries)]
    /\ UNCHANGED <<regVars, models, loads, firstStored, threadVars, ioVars, dlVars>>

\* The effect of a load_model outcome on the cache and its instrumentation.
ApplyLoad(name, o) ==
    /\ models' = o.models
    /\ loads' = [loads EXCEPT ![name] = IF o.stored THEN @ + 1 ELSE @]
    /\ firstStored' = IF o.stored /\ name \notin DOMAIN firstStored
                      THEN CacheStore(firstStored, name, o.models[name])
                      ELSE firstStored

\* pipeline.load_model(name)
CallLoadModel(name) ==
    \E o \in LoadModelOutcomes(models, modelsDirIsDir, dirEntries, name) :
        /\ ApplyLoad(name, o)
        /\ last' = [NoCall EXCEPT !.op = "load_model", !.name = name,
                                  !.hit = o.hit, !.scanned = o.scanned,
                                  !.stored = o.stored, !.err = o.err]
        /\ UNCHANGED <<regVars, threadVars, ioVars, dlVars>>

\* pipeline.infer_voice(name, audio, sr, ...)
CallInferVoice(name) ==
    \E o \in LoadModelOutcomes(models, modelsDirIsDir, dirEntries, name) :
      \E audio \in Audios, sr \in SampleRates, params \in ParamSets :
        /\ ApplyLoad(name, o)
        /\ last' =
             IF o.err # NoError
             THEN [NoCall EXCEPT !.op = "infer_voice", !.name = name,
                                 !.hit = o.hit, !.scanned = o.scanned,
                                 !.stored = o.stored, !.err = o.err,
                                 !.audioIn = audio, !.srIn = sr,
                                 !.params = params]
             ELSE [NoCall EXCEPT !.op = "infer_voice", !.name = name,
                                 !.hit = o.hit, !.scanned = o.scanned,
                                 !.stored = o.stored,
                                 !.audioIn = audio, !.srIn = sr,
                                 !.params = params,
                                 !.audio = InferVoiceBody(o.models[name], audio,
                                                          sr, params).audio,
                                 !.sr = InferVoiceBody(o.models[name], audio,
                                                       sr, params).sr,
                                 !.stages = InferVoiceStages(params)]
        /\ UNCHANGED <<regVars, threadVars, ioVars, dlVars>>

\* The user changes the models directory between calls.
EnvSetModelsDir ==
    /\ modelsDirIsDir' = ~modelsDirIsDir
    /\ dirEntries' = [n \in ModelNames |-> Absent]
    /\ UNCHANGED <<models, loads, firstStored, last, threadVars, ioVars, dlVars>>

\* An entry of models_dir is created (a plain file or an empty directory) or
\* removed with what it holds.
EnvSetEntry(name, entry) ==
    /\ modelsDirIsDir
    /\ \/ dirEntries[name] = Absent /\ entry \in {PlainFile, Directory({})}
       \/ dirEntries[name] # Absent /\ entry = Absent
    /\ dirEntries' = [dirEntries EXCEPT ![name] = entry]
    /\ UNCHANGED <<modelsDirIsDir, models, loads, firstStored, last, threadVars, ioVars, dlVars>>

\* A file is added to or removed from a model directory.
EnvToggleFile(name, f) ==
    /\ modelsDirIsDir
    /\ dirEntries[name].kind = "dir"
    /\ dirEntries' = [dirEntries EXCEPT ![name] =
                        Directory(IF f \in @.files THEN @.files \ {f}
                                  ELSE @.files \cup {f})]
    /\ UNCHANGED <<modelsDirIsDir, models, loads, firstStored, last, threadVars, ioVars, dlVars>>

Next ==
    \/ CallListModels
    \/ \E n \in ModelNames : CallLoadModel(n)
    \/ \E n \in ModelNames : CallInferVoice(n)
    \/ EnvSetModelsDir
    \/ \E n \in ModelNames, e \in EntryStates : EnvSetEntry(n, e)
    \/ \E n \in ModelNames, f \in FileNames : EnvToggleFile(n, f)

Spec == Init /\ [][Next]_vars

----------------------------------------------------------------------------
(* Claims about the registry and the cache under one caller.               *)

IsResolve(call) == call.op \in {"load_model", "infer_voice"}

\* A step in which a pipeline call ran (the models directory is left alone).
CallStep == UNCHANGED regVars

\* f = prefix \o ext for some prefix
HasSuffix(f, ext) == \E k \in 0..Len(f) : SubSeq(f, k + 1, Len(f)) = ext

\* C1: under one caller, a model name that was resolved has had its loading
\* work (scan, selection, store) done exactly once however many resolves
\* followed, a resolve that finds the name cached scans and stores nothing,
\* and the cache holds the very entry the first resolve stored.
C1_LoadedOnce ==
    /\ \A n \in ModelNames :
          loads[n] = IF n \in DOMAIN models THEN 1 ELSE 0
    /\ DOMAIN firstStored = DOMAIN models
    /\ \A n \in DOMAIN models : models[n] = firstStored[n]
    /\ (IsResolve(last) /\ last.hit) => ~last.scanned /\ ~last.stored

\* A second resolve of a loaded model has returned from the cache.
C1_Witness ==
    /\ last.op = "infer_voice"
    /\ last.hit
    /\ last.err = NoError
    /\ loads[last.name] = 1

\* C4: a resolve of a name that is neither cached nor in the registry raises
\* the not-found error carrying that name and the models directory, adds no
\* cache entry, and (for infer_voice) returns no audio.
C4_NotFound ==
    [][\A n \in ModelNames :
          ( /\ CallStep
            /\ IsResolve(last') /\ last'.name = n
            /\ n \notin DOMAIN models
            /\ n \notin DOMAIN ListModels(modelsDirIsDir, dirEntries) )
          => /\ last'.err.type = "ValueError"
             /\ last'.err.name = n
             /\ last'.err.dir = MODELS_DIR
             /\ models' = models
             /\ last'.audio = "" /\ last'.sr = 0
      ]_vars

\* infer_voice failed for a name that is on disk, but not as a model, while
\* another model is cached.
C4_Witness ==
    /\ last.op = "infer_voice"
    /\ last.err = ModelNotFound(last.name)
    /\ last.name \notin DOMAIN models
    /\ dirEntries[last.name].kind = "dir"
    /\ models # EmptyDict

MayBeSkipped(stage, params) ==
    \/ stage = "autotune" /\ ~params.autotune
    \/ stage = "feature_retrieval_blend" /\ params.index_rate = 0

\* C6: every conversion infer_voice returns from has run the stages in the
\* listed order, none twice, and skipped none but the two optional ones.
C6_StagesInOrder ==
    (last.op = "infer_voice" /\ last.err = NoError)
    => /\ \A i \in 1..Len(Stages) :
             MayBeSkipped(Stages[i], last.params)
             \/ \E j \in 1..Len(last.stages) : last.stages[j] = Stages[i]
       /\ \A j, k \in 1..Len(last.stages) :
             j < k => \E a, b \in 1..Len(Stages) :
                         a < b /\ last.stages[j] = Stages[a]
                               /\ last.stages[k] = Stages[b]

\* C10: the entry a load stores names the first weights file and the first
\* index file of the model directory in sorted order.
C10_SortedFirst ==
    [][\A n \in ModelNames :
          (CallStep /\ n \notin DOMAIN models /\ n \in DOMAIN models')
          => /\ models'[n].pth =
                  Head(Sorted({f \in dirEntries[n].files : HasSuffix(f, PTH_EXT)}))
             /\ models'[n].index =
                  Head(Sorted({f \in dirEntries[n].files : HasSuffix(f, INDEX_EXT)}))
      ]_vars

----------------------------------------------------------------------------
(* Concurrent requests on one pipeline: the web UI shares one RVCPipeline  *)
(* among its request handlers.  load_model takes no lock, so its           *)
(* statements interleave.  The models directory is left alone meanwhile.   *)

\* A request enters load_model(name).
TCall(t, name) ==
    /\ tpc[t] = "idle"
    /\ tpc' = [tpc EXCEPT ![t] = "check"]
    /\ tname' = [tname EXCEPT ![t] = name]
    /\ UNCHANGED <<regVars, cacheVars, last, tmodels, ioVars, dlVars>>

\* `if model_name in self.models: return`
TCheck(t) ==
    /\ tpc[t] = "check"
    /\ tpc' = [tpc EXCEPT ![t] = IF CacheHit(models, tname[t]) THEN "idle" ELSE "scan"]
    /\ UNCHANGED <<regVars, cacheVars, last, tname, tmodels, ioVars, dlVars>>

\* `models = self.list_models()`, and the raise when the name is not in it
TScan(t) ==
    /\ tpc[t] = "scan"
    /\ tmodels' = [tmodels EXCEPT ![t] = ListModels(modelsDirIsDir, dirEntries)]
    /\ tpc' = [tpc EXCEPT ![t] =
                 IF tname[t] \in DOMAIN tmodels'[t] THEN "store" ELSE "idle"]
    /\ UNCHANGED <<regVars, cacheVars, last, tname, ioVars, dlVars>>

\* `self.models[model_name] = {...}` with its two directory listings
TStore(t) ==
    /\ tpc[t] = "store"
    /\ \E pth \in FirstWithExt(dirEntries[tname[t]].files, PTH_EXT),
          index \in FirstWithExt(dirEntries[tname[t]].files, INDEX_EXT) :
          LET entry == CacheEntry(tmodels[t][tname[t]], pth, index)
          IN  /\ models' = CacheStore(models, tname[t], entry)
              /\ firstStored' = IF tname[t] \in DOMAIN firstStored
                                THEN firstStored
                                ELSE CacheStore(firstStored, tname[t], entry)
    /\ loads' = [loads EXCEPT ![tname[t]] = @ + 1]
    /\ tpc' = [tpc EXCEPT ![t] = "idle"]
    /\ UNCHANGED <<regVars, last, tname, tmodels, ioVars, dlVars>>

NextConc ==
    \/ \E t \in Threads, n \in ModelNames : TCall(t, n)
    \/ \E t \in Threads : TCheck(t)
    \/ \E t \in Threads : TScan(t)
    \/ \E t \in Threads : TStore(t)

SpecConc == Init /\ [][NextConc]_vars

\* C2: however the steps of concurrent resolves of one name interleave, the
\* cache entry of that name is written at most once.
C2_OneLoadPerName == \A n \in ModelNames : loads[n] <= 1

----------------------------------------------------------------------------
(* Audio files, save_audio and the command line.                           *)

IN_TOP == <<"s", ".", "w", "a", "v">>
IN_SUB == <<"d", "/", "s", ".", "w", "a", "v">>
DIR_D == <<"d">>
OUT_TOP == <<"o">>
OUT_SUB == <<"d", "/", "o">>

\* The paths handed to save_audio, the formats asked for and what the
\* external encoder does.
SavePaths == {OUT_TOP, OUT_SUB}
SaveFormats == {WAV, <<"W", "A", "V">>, MP3, <<"M", "p", "3">>, <<"o", "g", "g">>}
Encoders == {"ok", "fail"}

\* The command lines: -i, -m, -o (or none) and --output_format, which
\* argparse restricts to its choices.
CliInputs == {IN_TOP, IN_SUB}
CliOutputs == {[given |-> FALSE, path |-> <<>>], [given |-> TRUE, path |-> OUT_SUB]}
CliFormats == {WAV, MP3}

\* The working trees a run may start in.
WorkTree(top, d, sub, out) ==
    LET paths == (IF top THEN {IN_TOP} ELSE {})
                 \cup (IF d # "absent" THEN {DIR_D} ELSE {})
                 \cup (IF d = "dir" /\ sub THEN {IN_SUB} ELSE {})
                 \cup (IF out THEN {OUT_TOP} ELSE {})
    IN  [q \in paths |-> IF q = DIR_D THEN d ELSE "file"]
WorkTrees ==
    {WorkTree(top, d, sub, out) :
        top \in BOOLEAN, d \in {"absent", "file", "dir"},
        sub \in BOOLEAN, out \in BOOLEAN}

\* The models directory of these runs: each name is a complete model or absent.
InitIo ==
    /\ modelsDirIsDir = TRUE
    /\ dirEntries \in [ModelNames -> {Absent, Directory(FileNames)}]
    /\ PipelineInit
    /\ ThreadsIdle
    /\ DlIdle
    /\ wfs \in WorkTrees
    /\ io = NoIo

\* pipeline.load_audio(path)
CallLoadAudio(path) ==
    /\ io' = [NoIo EXCEPT !.op = "load_audio", !.path = path,
                          !.err = LoadAudio(wfs, path)]
    /\ UNCHANGED <<regVars, cacheVars, last, threadVars, wfs, dlVars>>

\* pipeline.save_audio(audio, sr, path, format)
CallSaveAudio(path, format, encoder) ==
    LET r == SaveAudio(wfs, path, format, encoder)
    IN  /\ wfs' = r.fs
        /\ io' = [NoIo EXCEPT !.op = "save_audio", !.path = path,
                              !.format = format, !.encoder = encoder,
                              !.output = path, !.err = r.err]
        /\ UNCHANGED <<regVars, cacheVars, last, threadVars, dlVars>>

\* One run of the command line; its pipeline and cache end with the process.
CallCli(input, model, out, format, encoder) ==
    \E r \in CliMain(wfs, modelsDirIsDir, dirEntries, input, model,
                     out.given, out.path, format, encoder) :
        /\ wfs' = r.fs
        /\ io' = [NoIo EXCEPT !.op = "cli", !.path = input, !.model = model,
                              !.given = out.given, !.format = format,
                              !.encoder = encoder, !.output = r.output,
                              !.err = r.err]
        /\ UNCHANGED <<regVars, cacheVars, last, threadVars, dlVars>>

NextIo ==
    \/ \E path \in CliInputs : CallLoadAudio(path)
    \/ \E path \in SavePaths, f \in SaveFormats, e \in Encoders :
          CallSaveAudio(path, f, e)
    \/ \E i \in CliInputs, m \in ModelNames, o \in CliOutputs,
          f \in CliFormats, e \in Encoders : CallCli(i, m, o, f, e)

SpecIo == InitIo /\ [][NextIo]_vars

----------------------------------------------------------------------------
(* Claims about save_audio and the command line.                           *)

MakedirsErrors == {"FileNotFoundError", "FileExistsError", "NotADirectoryError"}

\* <inputBaseName>_converted.<format> for the inputs of CliInputs, whose base
\* name is "s"
ExpectedOutput(format) ==
    <<"s", "_", "c", "o", "n", "v", "e", "r", "t", "e", "d", ".">> \o format

\* C3: an MP3 save that starts without a <filepath>.tmp.wav ends without one,
\* whether the encoder succeeded or failed.
C3_TmpRemoved ==
    [][ ( /\ io'.op = "save_audio"
          /\ Lower(io'.format) = MP3
          /\ (io'.path \o TMP_SUFFIX) \notin DOMAIN wfs )
        => (io'.path \o TMP_SUFFIX) \notin DOMAIN wfs'
      ]_vars

\* C7: a save with a format other than wav or mp3 (in any letter case) fails
\* with the unsupported-format error and changes nothing in the tree.
C7_UnsupportedFormat ==
    [][ (io'.op = "save_audio" /\ Lower(io'.format) \notin {WAV, MP3})
        => /\ io'.err.type = "ValueError"
           /\ io'.err.arg = io'.format
           /\ wfs' = wfs
      ]_vars

\* C8: a command line without -o, with an existing input file, a valid model
\* and a working encoder ends with the file <base>_converted.<format>
\* written; and the directory creation of save_audio does not fail for a
\* path without a directory part or with an existing directory.
C8_DefaultOutput ==
    [][ /\ ( /\ io'.op = "cli"
             /\ ~io'.given
             /\ IsFile(wfs, io'.path)
             /\ io'.model \in DOMAIN ListModels(modelsDirIsDir, dirEntries)
             /\ io'.encoder = "ok"
             /\ ~IsDir(wfs, ExpectedOutput(io'.format)) )
           => /\ io'.err = NoErr
              /\ io'.output = ExpectedOutput(io'.format)
              /\ IsFile(wfs', ExpectedOutput(io'.format))
        /\ ( /\ io'.op = "save_audio"
             /\ \/ Dirname(io'.path) = <<>>
                \/ IsDir(wfs, Dirname(io'.path)) )
           => io'.err.type \notin MakedirsErrors
      ]_vars

----------------------------------------------------------------------------
(* The download utility.                                                   *)

\* stop_after_attempt(3) and wait_fixed(10) of the retry decorator
MAX_ATTEMPTS == 3
WAIT_FIXED == 10

MdxModels == <<"UVR-MDX-NET-Voc_FT.onnx", "UVR_MDXNET_KARA_2.onnx", "Reverb_HQ_By_FoxJoy.onnx">>
RvcModels == <<"hubert_base.pt", "rmvpe.pt">>

DlList(phase) == IF phase = "mdx" THEN MdxModels ELSE RvcModels
Artifacts == {MdxModels[i] : i \in 1..Len(MdxModels)} \cup {RvcModels[i] : i \in 1..Len(RvcModels)}
DlPhase == IF dlPc \in {"mdx_loop", "mdx_fetch"} THEN "mdx" ELSE "rvc"
DlCurrent == DlList(DlPhase)[dlPos]

\* The directories exist (lines 58-59) and hold any of the artifacts.
InitDl ==
    /\ RegistryInit /\ modelsDirIsDir = FALSE
    /\ PipelineInit
    /\ ThreadsIdle
    /\ IoIdle
    /\ dlPc = "idle" /\ dlPos = 0 /\ dlAttempts = 0 /\ dlWaits = <<>>
    /\ dlDisk \in SUBSET Artifacts
    /\ dlLog = EmptyDict

DlRecord(outcome, attempts, waits) ==
    [outcome |-> outcome, attempts |-> attempts, waits |-> waits]
DlLogged(name, rec) ==
    [a \in DOMAIN dlLog \cup {name} |-> IF a = name THEN rec ELSE dlLog[a]]

\* The head of the loop over the artifacts of a phase.
LoopHead(phase) == IF phase = "mdx" THEN "mdx_loop" ELSE "rvc_loop"

\* A mutant of AfterGiveUp: the exception leaves main.
AfterGiveUpAbort(phase) == "done"

\* Where main goes on after the `except Exception` of a loop has logged the
\* failure: to the next iteration of the same loop.
AfterGiveUp(phase) == LoopHead(phase)

\* tenacity's stop_after_attempt(3), asked after a failed attempt
StopAfterAttempt(attempt) == attempt >= MAX_ATTEMPTS

\* main() up to the first loop
DlStart ==
    /\ dlPc = "idle"
    /\ dlPc' = "mdx_loop" /\ dlPos' = 1
    /\ UNCHANGED <<dlAttempts, dlWaits, dlDisk, dlLog>>
    /\ UNCHANGED <<regVars, cacheVars, last, threadVars, ioVars>>

\* A loop is over: the next loop, or the end of main.
DlLoopEnd ==
    /\ dlPc \in {"mdx_loop", "rvc_loop"}
    /\ dlPos > Len(DlList(DlPhase))
    /\ dlPc' = IF dlPc = "mdx_loop" THEN "rvc_loop" ELSE "done"
    /\ dlPos' = IF dlPc = "mdx_loop" THEN 1 ELSE 0
    /\ UNCHANGED <<dlAttempts, dlWaits, dlDisk, dlLog>>
    /\ UNCHANGED <<regVars, cacheVars, last, threadVars, ioVars>>

\* `if dest.exists(): ... continue`
DlSkip ==
    /\ dlPc \in {"mdx_loop", "rvc_loop"}
    /\ dlPos <= Len(DlList(DlPhase))
    /\ DlCurrent \in dlDisk
    /\ dlLog' = DlLogged(DlCurrent, DlRecord("skipped", 0, <<>>))
    /\ dlPos' = dlPos + 1
    /\ UNCHANGED <<dlPc, dlAttempts, dlWaits, dlDisk>>
    /\ UNCHANGED <<regVars, cacheVars, last, threadVars, ioVars>>

\* `try: download_from_url(url, str(dest))`
DlCall ==
    /\ dlPc \in {"mdx_loop", "rvc_loop"}
    /\ dlPos <= Len(DlList(DlPhase))
    /\ DlCurrent \notin dlDisk
    /\ dlPc' = IF dlPc = "mdx_loop" THEN "mdx_fetch" ELSE "rvc_fetch"
    /\ dlAttempts' = 0 /\ dlWaits' = <<>>
    /\ UNCHANGED <<dlPos, dlDisk, dlLog>>
    /\ UNCHANGED <<regVars, cacheVars, last, threadVars, ioVars>>

\* An attempt of download_from_url succeeds: the file is saved.
DlAttemptOk ==
    /\ dlPc \in {"mdx_fetch", "rvc_fetch"}
    /\ dlDisk' = dlDisk \cup {DlCurrent}
    /\ dlLog' = DlLogged(DlCurrent, DlRecord("saved", dlAttempts + 1, dlWaits))
    /\ dlPc' = LoopHead(DlPhase)
    /\ dlPos' = dlPos + 1
    /\ dlAttempts' = 0 /\ dlWaits' = <<>>
    /\ UNCHANGED <<regVars, cacheVars, last, threadVars, ioVars>>

\* What a failed attempt leaves at dest: nothing, or the part it had written.
AfterFailedAttempt(disk, name) == {disk, disk \cup {name}}

\* An attempt raises and the retry decorator waits before the next one.
DlAttemptRetry ==
    /\ dlPc \in {"mdx_fetch", "rvc_fetch"}
    /\ ~StopAfterAttempt(dlAttempts + 1)
    /\ dlAttempts' = dlAttempts + 1
    /\ dlWaits' = Append(dlWaits, WAIT_FIXED)
    /\ dlDisk' \in AfterFailedAttempt(dlDisk, DlCurrent)
    /\ UNCHANGED <<dlPc, dlPos, dlLog>>
    /\ UNCHANGED <<regVars, cacheVars, last, threadVars, ioVars>>

\* The last attempt raises: the decorator raises RetryError, main logs the
\* failure of this artifact and goes on.
DlGiveUp ==
    /\ dlPc \in {"mdx_fetch", "rvc_fetch"}
    /\ StopAfterAttempt(dlAttempts + 1)
    /\ dlLog' = DlLogged(DlCurrent, DlRecord("failed", dlAttempts + 1, dlWaits))
    /\ dlPc' = AfterGiveUp(DlPhase)
    /\ dlPos' = IF dlPc' = "done" THEN 0 ELSE dlPos + 1
    /\ dlAttempts' = 0 /\ dlWaits' = <<>>
    /\ dlDisk' \in AfterFailedAttempt(dlDisk, DlCurrent)
    /\ UNCHANGED <<regVars, cacheVars, last, threadVars, ioVars>>

NextDl ==
    \/ DlStart
    \/ DlLoopEnd
    \/ DlSkip
    \/ DlCall
    \/ DlAttemptOk
    \/ DlAttemptRetry
    \/ DlGiveUp

\* The script runs on: a fetch attempt returns or raises, nothing else blocks.
SpecDl == InitDl /\ [][NextDl]_vars /\ WF_vars(NextDl)

----------------------------------------------------------------------------
(* Claims about the download utility.                                      *)

AllEqual(seq) == \A i, j \in 1..Len(seq) : seq[i] = seq[j]

C9_Bounded ==
    /\ dlAttempts < 3
    /\ Len(dlWaits) = dlAttempts /\ AllEqual(dlWaits)
    /\ \A a \in DOMAIN dlLog :
          /\ dlLog[a].attempts <= 3
          /\ AllEqual(dlLog[a].waits)
          /\ dlLog[a].outcome # "skipped" =>
                /\ dlLog[a].attempts >= 1
                /\ Len(dlLog[a].waits) = dlLog[a].attempts - 1
          /\ dlLog[a].outcome = "failed" => dlLog[a].attempts = 3
          /\ dlLog[a].outcome = "saved" => a \in dlDisk

C9_AllHandled ==
    dlPc = "done" =>
        /\ DOMAIN dlLog = Artifacts
        /\ \A a \in Artifacts : dlLog[a].outcome \in {"skipped", "saved", "failed"}

\* C9: a fetch is attempted at most 3 times with the same wait between
\* attempts; an artifact is reported failed only after its 3 attempts failed;
\* the run reaches its end, and by then every artifact of both lists was
\* skipped as present, saved or reported failed.
C9_Download == [](C9_Bounded /\ C9_AllHandled) /\ <>(dlPc = "done")

\* The run is over: the first artifact failed three times, and later ones of
\* both lists were fetched.
C9_Witness ==
    /\ dlPc = "done"
    /\ dlLog[MdxModels[1]].outcome = "failed"
    /\ dlLog[MdxModels[1]].attempts = 3
    /\ dlLog[MdxModels[1]].waits = <<10, 10>>
    /\ dlLog[MdxModels[2]].outcome = "saved"
    /\ dlLog[RvcModels[2]].outcome = "saved"
    /\ dlLog[RvcModels[2]].attempts = 2

----------------------------------------------------------------------------
(* Conversions with models that differ in their index.                     *)

WEIGHTS_A == <<"a", ".", "p", "t", "h">>
INDEX_A == <<"a", ".", "i", "n", "d", "e", "x">>
INDEX_B == <<"b", ".", "i", "n", "d", "e", "x">>

\* Model directories with the same weights file and one index, the other, or
\* both.
IndexVariants ==
    {Directory({WEIGHTS_A, INDEX_A}), Directory({WEIGHTS_A, INDEX_B}),
     Directory({WEIGHTS_A, INDEX_A, INDEX_B})}

InitInfer ==
    /\ modelsDirIsDir = TRUE
    /\ dirEntries \in [ModelNames -> IndexVariants]
    /\ PipelineInit
    /\ ThreadsIdle
    /\ IoIdle
    /\ DlIdle

NextInfer ==
    \/ \E n \in ModelNames : CallLoadModel(n)
    \/ \E n \in ModelNames : CallInferVoice(n)

SpecInfer == InitInfer /\ [][NextInfer]_vars

\* C11: two conversions at index rate 0, one after the other, with the same
\* audio, sample rate and parameters, on models with the same weights and
\* different indexes, return the same audio and the same sample rate.
C11_IndexIndependent ==
    [][ ( /\ last.op = "infer_voice" /\ last.err = NoError
          /\ last'.op = "infer_voice" /\ last'.err = NoError
          /\ last'.audioIn = last.audioIn
          /\ last'.srIn = last.srIn
          /\ last'.params = last.params
          /\ last.params.index_rate = 0
          /\ models'[last'.name].pth = models'[last.name].pth
          /\ models'[last'.name].index # models'[last.name].index )
        => /\ last'.audio = last.audio
           /\ last'.sr = last.sr
      ]_vars

\* A conversion at index rate 0 has returned its input, on a model that was
\* cached, while the cache holds another model with the same weights and
\* another index.
C11_Witness ==
    /\ last.op = "infer_voice" /\ last.err = NoError
    /\ last.params.index_rate = 0
    /\ last.hit
    /\ last.audio = last.audioIn /\ last.sr = last.srIn
    /\ \E m \in DOMAIN models :
          /\ m # last.name
          /\ models[m].pth = models[last.name].pth
          /\ models[m].index # models[last.name].index

----------------------------------------------------------------------------
(* One caller using every call of the pipeline while the models directory  *)
(* changes.                                                                *)

MODEL_1 == <<"m", "1">>

\* The entry of models_dir that changes on disk and is converted with; the
\* other one stays as it was found, until models_dir itself is replaced.
InitAll ==
    /\ modelsDirIsDir = TRUE
    /\ dirEntries \in [ModelNames -> {Absent, Directory(FileNames)}]
    /\ PipelineInit
    /\ ThreadsIdle
    /\ DlIdle
    /\ wfs = WorkTree(TRUE, "absent", FALSE, FALSE)
    /\ io = NoIo

NextAll ==
    \/ CallListModels
    \/ \E n \in ModelNames : CallLoadModel(n)
    \/ CallInferVoice(MODEL_1)
    \/ CallLoadAudio(IN_TOP)
    \/ \E f \in {WAV, <<"o", "g", "g">>} : CallSaveAudio(OUT_SUB, f, "ok")
    \/ EnvSetModelsDir
    \/ \E e \in EntryStates : EnvSetEntry(MODEL_1, e)
    \/ \E f \in FileNames : EnvToggleFile(MODEL_1, f)

SpecAll == InitAll /\ [][NextAll]_vars

\* A step in which infer_voice ran.
InferStep == last' # last /\ last'.op = "infer_voice"

\* C12: no step (a call of list_models, load_model, infer_voice, load_audio
\* or save_audio, failing or not, or a change of the models directory)
\* changes or removes an entry the cache holds; and infer_voice leaves
\* behind nothing but at most the cache entry of the model it resolved: it
\* touches no file, and what it returns is made of its own inputs.
C12_CacheOnlyGrows ==
    [][ /\ \A n \in DOMAIN models :
              n \in DOMAIN models' /\ models'[n] = models[n]
        /\ InferStep =>
              /\ DOMAIN models' \subseteq DOMAIN models \cup {last'.name}
              /\ UNCHANGED <<regVars, wfs>>
              /\ last'.err = NoError =>
                    /\ last'.audio = last'.audioIn
                    /\ last'.sr = last'.srIn
      ]_vars

\* Both models are cached, the directory of one is gone from the disk, a
\* save has failed, and a conversion with that model has returned from the
\* cache.
C12_Witness ==
    /\ DOMAIN models = ModelNames
    /\ dirEntries[MODEL_1] = Absent
    /\ io.op = "save_audio" /\ io.err # NoErr
    /\ last.op = "infer_voice" /\ last.name = MODEL_1
    /\ last.hit /\ last.err = NoError
    /\ models[MODEL_1] = firstStored[MODEL_1]

====
